---- MODULE Spec2Model ----
(***************************************************************************)
(* A model of the rawstring byte-string primitives (RawStr, BStr, BString):*)
(* the Debug and Display renderers, the comparison reductions and the      *)
(* try-decode operations.                                                  *)
(*                                                                         *)
(* Bytes are integers 0..255, text is a sequence of Unicode scalar values  *)
(* (integers), and a byte run is a sequence of bytes.  A render is one     *)
(* call of fmt: it issues write requests to the writer in program order;   *)
(* the writer refuses at most one of them (the failAt-th, 0 = none).       *)
(***************************************************************************)
EXTENDS Integers, Sequences, FiniteSets, TLC

VARIABLES
    op,      \* the operation that produced the current result ("init" before any)
    bytes,   \* the byte run the operation is applied to (self.0)
    other,   \* the second operand of a comparison (other.as_ref())
    align,   \* f.align(): "None", "Left", "Right" or "Center"
    width,   \* f.width(): <<>> for None, <<w>> for Some(w)
    fill,    \* f.fill(): a scalar value
    failAt,  \* the writer refuses its failAt-th write request (0: it never refuses)
    out,     \* the text the writer accepted, in order
    calls,   \* the number of write requests the render issued
    ret      \* the value the operation returned

vars == <<op, bytes, other, align, width, fill, failAt, out, calls, ret>>

-----------------------------------------------------------------------------
(* Bounds and input alphabets *)

MaxLen == 4
MaxPadLen == 3
MaxWidth == 6
MaxDebugLen == 3
MaxFailLen == 2
MaxFailWidth == 2
MaxCmpLen == 3
MaxUtf8Len == 4

\* every sequence over S of length at most n
SeqsUpTo(S, n) == UNION {[1..k -> S] : k \in 0..n}

\* 'a', 'b', continuation bytes, a 2-, 3- and 4-byte lead, the surrogate lead
\* 0xED, and 0xFF; EF BF BD is the encoding of U+FFFD itself
DisplayBytes == {97, 98, 189, 191, 195, 237, 239, 240, 255}

-----------------------------------------------------------------------------
(* The UTF-8 primitives the renderers call *)

\* The Unicode replacement character U+FFFD
UTF8_REPLACEMENT_CHARACTER == 65533

\* utf8_char_width: the length of the sequence a first byte announces, 0 for a
\* byte that starts none
utf8_char_width(b) ==
    IF b < 128 THEN 1
    ELSE IF b >= 194 /\ b <= 223 THEN 2
    ELSE IF b >= 224 /\ b <= 239 THEN 3
    ELSE IF b >= 240 /\ b <= 244 THEN 4
    ELSE 0

\* b & 0xC0 == 0x80: a continuation byte
IsCont(b) == b >= 128 /\ b <= 191

\* xs.get(i).unwrap_or(0), i counted from 0
safe_get(xs, i) == IF i < Len(xs) THEN xs[i + 1] ELSE 0

\* the second byte a 3-byte lead accepts
Second3Ok(first, b) ==
    \/ first = 224 /\ b >= 160 /\ b <= 191
    \/ first >= 225 /\ first <= 236 /\ b >= 128 /\ b <= 191
    \/ first = 237 /\ b >= 128 /\ b <= 159
    \/ first >= 238 /\ first <= 239 /\ b >= 128 /\ b <= 191

\* the second byte a 4-byte lead accepts
Second4Ok(first, b) ==
    \/ first = 240 /\ b >= 144 /\ b <= 191
    \/ first >= 241 /\ first <= 243 /\ b >= 128 /\ b <= 191
    \/ first = 244 /\ b >= 128 /\ b <= 143

\* The loop of Utf8Chunks::next over source: <<i, valid_up_to>> when it ends.
\* A "break" leaves i past the bytes inspected and valid_up_to behind them.
RECURSIVE ScanChunk(_, _, _)
ScanChunk(source, i, valid_up_to) ==
    IF i >= Len(source) THEN <<i, valid_up_to>>
    ELSE
        LET byte == source[i + 1]
            i1 == i + 1
            w == utf8_char_width(byte)
        IN  IF byte < 128 THEN ScanChunk(source, i1, i1)
            ELSE IF w = 2 THEN
                IF ~IsCont(safe_get(source, i1)) THEN <<i1, valid_up_to>>
                ELSE ScanChunk(source, i1 + 1, i1 + 1)
            ELSE IF w = 3 THEN
                IF ~Second3Ok(byte, safe_get(source, i1)) THEN <<i1, valid_up_to>>
                ELSE IF ~IsCont(safe_get(source, i1 + 1)) THEN <<i1 + 1, valid_up_to>>
                ELSE ScanChunk(source, i1 + 2, i1 + 2)
            ELSE IF w = 4 THEN
                IF ~Second4Ok(byte, safe_get(source, i1)) THEN <<i1, valid_up_to>>
                ELSE IF ~IsCont(safe_get(source, i1 + 1)) THEN <<i1 + 1, valid_up_to>>
                ELSE IF ~IsCont(safe_get(source, i1 + 2)) THEN <<i1 + 2, valid_up_to>>
                ELSE ScanChunk(source, i1 + 3, i1 + 3)
            ELSE <<i1, valid_up_to>>

\* self.utf8_chunks(): the chunks Utf8Chunks yields, in order; none for an
\* empty run
RECURSIVE utf8_chunks(_)
utf8_chunks(source) ==
    IF Len(source) = 0 THEN <<>>
    ELSE
        LET r == ScanChunk(source, 0, 0)
            i == r[1]
            valid_up_to == r[2]
        IN  <<[valid |-> SubSeq(source, 1, valid_up_to),
               invalid |-> SubSeq(source, valid_up_to + 1, i)]>>
            \o utf8_chunks(SubSeq(source, i + 1, Len(source)))

\* str::chars() over valid UTF-8 (next_code_point): the scalars, in order
RECURSIVE chars(_)
chars(v) ==
    IF Len(v) = 0 THEN <<>>
    ELSE
        LET x == v[1]
            init == x % 32
            y == safe_get(v, 1) % 64
            z == safe_get(v, 2) % 64
            w == safe_get(v, 3) % 64
        IN  IF x < 128 THEN <<x>> \o chars(SubSeq(v, 2, Len(v)))
            ELSE IF x < 224 THEN <<init * 64 + y>> \o chars(SubSeq(v, 3, Len(v)))
            ELSE IF x < 240 THEN
                <<init * 4096 + y * 64 + z>> \o chars(SubSeq(v, 4, Len(v)))
            ELSE <<(init % 8) * 262144 + (y * 64 + z) * 64 + w>>
                 \o chars(SubSeq(v, 5, Len(v)))

\* char::encode_utf8: the bytes of one scalar
encode_utf8(c) ==
    IF c < 128 THEN <<c>>
    ELSE IF c < 2048 THEN <<192 + (c \div 64), 128 + (c % 64)>>
    ELSE IF c < 65536 THEN
        <<224 + (c \div 4096), 128 + ((c \div 64) % 64), 128 + (c % 64)>>
    ELSE <<240 + (c \div 262144), 128 + ((c \div 4096) % 64),
           128 + ((c \div 64) % 64), 128 + (c % 64)>>

\* the UTF-8 bytes of a text
RECURSIVE TextBytes(_)
TextBytes(t) ==
    IF Len(t) = 0 THEN <<>> ELSE encode_utf8(t[1]) \o TextBytes(Tail(t))

-----------------------------------------------------------------------------
(* The writer *)

\* one write request: its text, and whether the caller checks the result (`?`)
Req(text, checked) == [text |-> text, checked |-> checked]

RECURSIVE ConcatTexts(_, _, _)
\* the texts of reqs[1..to] except the refused request `skip`
ConcatTexts(reqs, to, skip) ==
    IF to = 0 THEN <<>>
    ELSE ConcatTexts(reqs, to - 1, skip)
         \o (IF to = skip THEN <<>> ELSE reqs[to].text)

\* A render's requests against a writer that refuses its k-th request: a
\* checked request that is refused ends the render with Err (the `?`); an
\* unchecked one drops the error and the render goes on.
RunWrites(reqs, k) ==
    IF k = 0 \/ k > Len(reqs) THEN
        [out |-> ConcatTexts(reqs, Len(reqs), 0), calls |-> Len(reqs), ret |-> <<"Ok">>]
    ELSE IF reqs[k].checked THEN
        [out |-> ConcatTexts(reqs, k - 1, 0), calls |-> k, ret |-> <<"Err">>]
    ELSE
        [out |-> ConcatTexts(reqs, Len(reqs), k), calls |-> Len(reqs), ret |-> <<"Ok">>]

\* a render applied to the current request, its outcome stored
Render(name, reqs) ==
    /\ op = "init"
    /\ LET r == RunWrites(reqs, failAt)
       IN  /\ out' = r.out
           /\ calls' = r.calls
           /\ ret' = r.ret
    /\ op' = name
    /\ UNCHANGED <<bytes, other, align, width, fill, failAt>>

-----------------------------------------------------------------------------
(* Debug *)

\* NUL, tab, '"', '\'', '\\', 'a', 'b', DEL, two continuation bytes (0x80,
\* 0xA9), the leads 0xC2, 0xCC and 0xE2, and 0xFF.  The scalars above U+007F
\* these encode are U+0080, U+00A9, U+0300, U+0329, U+2000, U+2029, U+2A40 and
\* U+2A69.
DebugBytes == {0, 9, 34, 39, 92, 97, 98, 127, 128, 169, 194, 204, 226, 255}

\* a lower-case hexadecimal digit
HexDigit(n) == IF n < 10 THEN 48 + n ELSE 87 + n

\* the digits of n in base 16, most significant first, no leading zero
RECURSIVE HexDigits(_)
HexDigits(n) ==
    IF n < 16 THEN <<HexDigit(n)>>
    ELSE HexDigits(n \div 16) \o <<HexDigit(n % 16)>>

\* u8::escape_ascii (ascii::escape_default)
escape_ascii(b) ==
    IF b = 9 THEN <<92, 116>>
    ELSE IF b = 13 THEN <<92, 114>>
    ELSE IF b = 10 THEN <<92, 110>>
    ELSE IF b = 92 THEN <<92, 92>>
    ELSE IF b = 39 THEN <<92, 39>>
    ELSE IF b = 34 THEN <<92, 34>>
    ELSE IF b >= 32 /\ b <= 126 THEN <<b>>
    ELSE <<92, 120, HexDigit(b \div 16), HexDigit(b % 16)>>

\* char::escape_unicode: \u{HEX}
escape_unicode(c) == <<92, 117, 123>> \o HexDigits(c) \o <<125>>

\* Grapheme_Extend, over the scalars DebugBytes encode: the combining
\* diacritical marks U+0300..U+036F
is_grapheme_extended(c) == c >= 768 /\ c <= 879

\* core::unicode::printable::is_printable, over the scalars DebugBytes encode:
\* U+0080 (a control), U+2000 (a space separator) and U+2029 (the paragraph
\* separator) are not printable
is_printable(c) == c \in {169, 768, 809, 10816, 10857}

\* char::escape_debug for a scalar above U+007F
escape_debug(c) ==
    IF is_grapheme_extended(c) THEN escape_unicode(c)
    ELSE IF is_printable(c) THEN <<c>>
    ELSE escape_unicode(c)

\* chunk.invalid().escape_ascii() displayed: for each byte, the (empty) run of
\* bytes before it that need no escape, then its escape
RECURSIVE InvalidReqs(_)
InvalidReqs(invalid) ==
    IF Len(invalid) = 0 THEN <<>>
    ELSE <<Req(<<>>, TRUE), Req(escape_ascii(invalid[1]), TRUE)>>
         \o InvalidReqs(Tail(invalid))

\* RawStr's match with the ASCII arm writing the scalar itself, unescaped
RawStr_DebugChar_unescaped(c) ==
    IF c = 0 THEN <<92, 48>>
    ELSE IF c >= 1 /\ c <= 127 THEN <<c>>
    ELSE escape_debug(c)

\* RawStr's match on a scalar of a valid chunk
RawStr_DebugChar(c) ==
    IF c = 0 THEN <<92, 48>>
    ELSE IF c >= 1 /\ c <= 127 THEN escape_ascii(c)
    ELSE escape_debug(c)

RECURSIVE RawStr_DebugChunks(_)
RawStr_DebugChunks(chunks) ==
    IF Len(chunks) = 0 THEN <<>>
    ELSE LET cs == chars(chunks[1].valid)
         IN  [k \in 1..Len(cs) |-> Req(RawStr_DebugChar(cs[k]), TRUE)]
             \o InvalidReqs(chunks[1].invalid)
             \o RawStr_DebugChunks(Tail(chunks))

\* <RawStr as Debug>::fmt: the write requests, in order
RawStr_Debug_fmt(b) ==
    <<Req(<<34>>, TRUE)>> \o RawStr_DebugChunks(utf8_chunks(b)) \o <<Req(<<34>>, TRUE)>>

\* BStr's match on a scalar of a valid chunk
BStr_DebugChar(c) ==
    IF c = 0 THEN <<92, 48>>
    ELSE IF c >= 1 /\ c <= 127 THEN escape_ascii(c)
    ELSE escape_debug(c)

RECURSIVE BStr_DebugChunks(_)
BStr_DebugChunks(chunks) ==
    IF Len(chunks) = 0 THEN <<>>
    ELSE LET cs == chars(chunks[1].valid)
         IN  [k \in 1..Len(cs) |-> Req(BStr_DebugChar(cs[k]), TRUE)]
             \o InvalidReqs(chunks[1].invalid)
             \o BStr_DebugChunks(Tail(chunks))

\* <BStr as Debug>::fmt
BStr_Debug_fmt(b) ==
    <<Req(<<34>>, TRUE)>> \o BStr_DebugChunks(utf8_chunks(b)) \o <<Req(<<34>>, TRUE)>>

\* <BString as Debug>::fmt: self.as_bstr().fmt(f); the call names no trait and
\* is read as the fmt of the trait being implemented
BString_Debug_fmt(b) == BStr_Debug_fmt(b)

RawStrDebug == Render("RawStr::Debug", RawStr_Debug_fmt(bytes))

BStrDebug == Render("BStr::Debug", BStr_Debug_fmt(bytes))

BStringDebug == Render("BString::Debug", BString_Debug_fmt(bytes))

DebugOps == {"RawStr::Debug", "BStr::Debug", "BString::Debug"}

\* format!("{:?}", x) with a writer that accepts everything
InitDebug ==
    /\ op = "init"
    /\ bytes \in SeqsUpTo(DebugBytes, MaxDebugLen)
    /\ other = <<>>
    /\ align = "None"
    /\ width = <<>>
    /\ fill = 32
    /\ failAt = 0
    /\ out = <<>>
    /\ calls = 0
    /\ ret = <<>>

NextDebug == RawStrDebug \/ BStrDebug \/ BStringDebug

SpecDebug == InitDebug /\ [][NextDebug]_vars

-----------------------------------------------------------------------------
(* Display *)

\* n requests of f.write_char(fill)
FillReqs(n, c, checked) == [k \in 1..n |-> Req(<<c>>, checked)]

\* the length counted in bytes instead of scalars
RECURSIVE VisibleLen_in_bytes(_)
VisibleLen_in_bytes(chunks) ==
    IF Len(chunks) = 0 THEN 0
    ELSE Len(chunks[1].valid)
         + (IF Len(chunks[1].invalid) = 0 THEN 0 ELSE 1)
         + VisibleLen_in_bytes(Tail(chunks))

\* chunk.valid().chars().count() + if chunk.invalid().is_empty() { 0 } else { 1 },
\* summed over the chunks
RECURSIVE VisibleLen(_)
VisibleLen(chunks) ==
    IF Len(chunks) = 0 THEN 0
    ELSE Len(chars(chunks[1].valid))
         + (IF Len(chunks[1].invalid) = 0 THEN 0 ELSE 1)
         + VisibleLen(Tail(chunks))

\* f.width().unwrap_or(0).saturating_sub(len)
TotalPadding(w, len) ==
    LET n == IF Len(w) = 0 THEN 0 ELSE w[1]
    IN  IF n > len THEN n - len ELSE 0

\* fmt_no_pad writing one replacement character per invalid byte
RECURSIVE RawStr_fmt_no_pad_per_byte(_)
RawStr_fmt_no_pad_per_byte(chunks) ==
    IF Len(chunks) = 0 THEN <<>>
    ELSE <<Req(chars(chunks[1].valid), TRUE)>>
         \o [k \in 1..Len(chunks[1].invalid) |->
                Req(<<UTF8_REPLACEMENT_CHARACTER>>, TRUE)]
         \o RawStr_fmt_no_pad_per_byte(Tail(chunks))

\* RawStr's fmt_no_pad: the valid text of each chunk, then one replacement
\* character when the chunk's invalid part is not empty; every write checked
RECURSIVE RawStr_fmt_no_pad(_)
RawStr_fmt_no_pad(chunks) ==
    IF Len(chunks) = 0 THEN <<>>
    ELSE <<Req(chars(chunks[1].valid), TRUE)>>
         \o (IF Len(chunks[1].invalid) # 0
             THEN <<Req(<<UTF8_REPLACEMENT_CHARACTER>>, TRUE)>>
             ELSE <<>>)
         \o RawStr_fmt_no_pad(Tail(chunks))

\* the odd fill character of a centered render put on the left
RawStr_pads_odd_left(a, total_padding) ==
    IF a = "Left" THEN <<0, total_padding>>
    ELSE IF a = "Right" THEN <<total_padding, 0>>
    ELSE LET half == total_padding \div 2
         IN  <<half + (total_padding % 2), half>>

\* RawStr's (lpad, rpad) for an alignment and a total padding
RawStr_pads(a, total_padding) ==
    IF a = "Left" THEN <<0, total_padding>>
    ELSE IF a = "Right" THEN <<total_padding, 0>>
    ELSE LET half == total_padding \div 2
         IN  <<half, half + (total_padding % 2)>>

\* <RawStr as Display>::fmt: the write requests, in order
RawStr_Display_fmt(b, a, w, c) ==
    IF a # "None" THEN
        LET len == VisibleLen(utf8_chunks(b))
            total_padding == TotalPadding(w, len)
            pads == RawStr_pads(a, total_padding)
        IN  FillReqs(pads[1], c, TRUE)
            \o RawStr_fmt_no_pad(utf8_chunks(b))
            \o FillReqs(pads[2], c, TRUE)
    ELSE RawStr_fmt_no_pad(utf8_chunks(b))

\* fmt_no_pad writing the replacement character after every chunk, without the
\* is_empty test
RECURSIVE BStr_fmt_no_pad_unconditional(_)
BStr_fmt_no_pad_unconditional(chunks) ==
    IF Len(chunks) = 0 THEN <<>>
    ELSE <<Req(chars(chunks[1].valid), TRUE),
           Req(<<UTF8_REPLACEMENT_CHARACTER>>, FALSE)>>
         \o BStr_fmt_no_pad_unconditional(Tail(chunks))

\* BStr's fmt_no_pad: as RawStr's, but the result of write_char is dropped
RECURSIVE BStr_fmt_no_pad(_)
BStr_fmt_no_pad(chunks) ==
    IF Len(chunks) = 0 THEN <<>>
    ELSE <<Req(chars(chunks[1].valid), TRUE)>>
         \o (IF Len(chunks[1].invalid) # 0
             THEN <<Req(<<UTF8_REPLACEMENT_CHARACTER>>, FALSE)>>
             ELSE <<>>)
         \o BStr_fmt_no_pad(Tail(chunks))

\* BStr's (lpad, rpad) for an alignment and a total padding
BStr_pads(a, total_padding) ==
    IF a = "Left" THEN <<0, total_padding>>
    ELSE IF a = "Right" THEN <<total_padding, 0>>
    ELSE LET half == total_padding \div 2
         IN  <<half, half + (total_padding % 2)>>

\* Display padding on the left-aligned default when no alignment is given, as
\* str's Display does
BStr_Display_fmt_default_left(b, a, w, c) ==
    LET len == VisibleLen(utf8_chunks(b))
        total_padding == TotalPadding(w, len)
        pads == BStr_pads(IF a = "None" THEN "Left" ELSE a, total_padding)
    IN  FillReqs(pads[1], c, FALSE)
        \o BStr_fmt_no_pad(utf8_chunks(b))
        \o FillReqs(pads[2], c, FALSE)

\* <BStr as Display>::fmt: the results of the fill writes are dropped
BStr_Display_fmt(b, a, w, c) ==
    IF a # "None" THEN
        LET len == VisibleLen(utf8_chunks(b))
            total_padding == TotalPadding(w, len)
            pads == BStr_pads(a, total_padding)
        IN  FillReqs(pads[1], c, FALSE)
            \o BStr_fmt_no_pad(utf8_chunks(b))
            \o FillReqs(pads[2], c, FALSE)
    ELSE BStr_fmt_no_pad(utf8_chunks(b))

\* self.as_bstr().fmt(f) resolved to BStr's Debug
BString_Display_fmt_as_Debug(b, a, w, c) == BStr_Debug_fmt(b)

\* <BString as Display>::fmt: self.as_bstr().fmt(f); the call names no trait and
\* is read as the fmt of the trait being implemented
BString_Display_fmt(b, a, w, c) == BStr_Display_fmt(b, a, w, c)

RawStrDisplay == Render("RawStr::Display", RawStr_Display_fmt(bytes, align, width, fill))

BStrDisplay == Render("BStr::Display", BStr_Display_fmt(bytes, align, width, fill))

BStringDisplay == Render("BString::Display", BString_Display_fmt(bytes, align, width, fill))

DisplayOps == {"RawStr::Display", "BStr::Display", "BString::Display"}

\* format!("{}", x): no alignment, no width, the default fill, a writer that
\* accepts everything
InitDisplay ==
    /\ op = "init"
    /\ bytes \in SeqsUpTo(DisplayBytes, MaxLen)
    /\ other = <<>>
    /\ align = "None"
    /\ width = <<>>
    /\ fill = 32
    /\ failAt = 0
    /\ out = <<>>
    /\ calls = 0
    /\ ret = <<>>

NextDisplay == RawStrDisplay \/ BStrDisplay \/ BStringDisplay

SpecDisplay == InitDisplay /\ [][NextDisplay]_vars

\* 'a', 'b', a continuation byte, a 2-byte and a 3-byte lead, and 0xFF
PadBytes == {97, 98, 191, 195, 239, 255}

Alignments == {"None", "Left", "Right", "Center"}

\* '*' and the default fill ' '
Fills == {42, 32}

\* format!("{:F<W}", x) and the like: any alignment, width and fill, a writer
\* that accepts everything
InitPad ==
    /\ op = "init"
    /\ bytes \in SeqsUpTo(PadBytes, MaxPadLen)
    /\ other = <<>>
    /\ align \in Alignments
    /\ width \in {<<>>} \cup {<<w>> : w \in 0..MaxWidth}
    /\ fill \in Fills
    /\ failAt = 0
    /\ out = <<>>
    /\ calls = 0
    /\ ret = <<>>

SpecPad == InitPad /\ [][NextDisplay]_vars

-----------------------------------------------------------------------------
(* A writer that refuses one write *)

\* 'a', NUL, a 2-byte lead with its continuation byte, and 0xFF
FailBytes == {0, 97, 191, 195, 255}

\* a bound on the refused request that exceeds the requests of every render
MaxFailAt == 2 * MaxFailLen + MaxFailWidth + 2

InitFail ==
    /\ op = "init"
    /\ bytes \in SeqsUpTo(FailBytes, MaxFailLen)
    /\ other = <<>>
    /\ align \in Alignments
    /\ width \in {<<>>} \cup {<<w>> : w \in 0..MaxFailWidth}
    /\ fill = 42
    /\ failAt \in 1..MaxFailAt
    /\ out = <<>>
    /\ calls = 0
    /\ ret = <<>>

NextFail ==
    \/ RawStrDisplay \/ BStrDisplay \/ BStringDisplay
    \/ RawStrDebug \/ BStrDebug \/ BStringDebug

SpecFail == InitFail /\ [][NextFail]_vars

-----------------------------------------------------------------------------
(* Comparison *)

\* <[u8] as PartialEq>::eq: equal lengths and equal bytes
slice_eq(a, b) ==
    IF Len(a) # Len(b) THEN FALSE
    ELSE \A k \in 1..Len(a) : a[k] = b[k]

\* the comparison of the first l bytes of a and b, from position k on
RECURSIVE memcmp(_, _, _, _)
memcmp(a, b, k, l) ==
    IF k > l THEN "Equal"
    ELSE IF a[k] < b[k] THEN "Less"
    ELSE IF a[k] > b[k] THEN "Greater"
    ELSE memcmp(a, b, k + 1, l)

\* <[u8] as Ord>::cmp: the common prefix decides, then the lengths
slice_cmp(a, b) ==
    LET l == IF Len(a) < Len(b) THEN Len(a) ELSE Len(b)
        order == memcmp(a, b, 1, l)
    IN  IF order # "Equal" THEN order
        ELSE IF Len(a) < Len(b) THEN "Less"
        ELSE IF Len(a) > Len(b) THEN "Greater"
        ELSE "Equal"

\* <RawStr as PartialEq<T>>::eq
RawStr_eq(a, b) == slice_eq(a, b)

\* the lengths compared before the bytes
RawStr_partial_cmp_length_first(a, b) ==
    IF Len(a) < Len(b) THEN <<"Some", "Less">>
    ELSE IF Len(a) > Len(b) THEN <<"Some", "Greater">>
    ELSE <<"Some", slice_cmp(a, b)>>

\* <RawStr as PartialOrd<T>>::partial_cmp
RawStr_partial_cmp(a, b) == <<"Some", slice_cmp(a, b)>>

\* <RawStr as Ord>::cmp
RawStr_cmp(a, b) == slice_cmp(a, b)

\* <BStr as PartialEq<T>>::eq
BStr_eq(a, b) == slice_eq(a, b)

\* <BStr as PartialOrd<T>>::partial_cmp
BStr_partial_cmp(a, b) == <<"Some", slice_cmp(a, b)>>

\* <BStr as Ord>::cmp
BStr_cmp(a, b) == slice_cmp(a, b)

\* an operation that writes nothing, its value stored
Apply(name, value) ==
    /\ op = "init"
    /\ op' = name
    /\ ret' = value
    /\ UNCHANGED <<bytes, other, align, width, fill, failAt, out, calls>>

RawStrEq == Apply("RawStr::eq", <<RawStr_eq(bytes, other)>>)

RawStrPartialCmp == Apply("RawStr::partial_cmp", RawStr_partial_cmp(bytes, other))

RawStrCmp == Apply("RawStr::cmp", <<RawStr_cmp(bytes, other)>>)

BStrEq == Apply("BStr::eq", <<BStr_eq(bytes, other)>>)

BStrPartialCmp == Apply("BStr::partial_cmp", BStr_partial_cmp(bytes, other))

BStrCmp == Apply("BStr::cmp", <<BStr_cmp(bytes, other)>>)

\* three byte values, so that runs differ in length, in a byte, or in neither
CmpBytes == {0, 97, 255}

InitCmp ==
    /\ op = "init"
    /\ bytes \in SeqsUpTo(CmpBytes, MaxCmpLen)
    /\ other \in SeqsUpTo(CmpBytes, MaxCmpLen)
    /\ align = "None"
    /\ width = <<>>
    /\ fill = 32
    /\ failAt = 0
    /\ out = <<>>
    /\ calls = 0
    /\ ret = <<>>

NextCmp ==
    \/ RawStrEq \/ RawStrPartialCmp \/ RawStrCmp
    \/ BStrEq \/ BStrPartialCmp \/ BStrCmp

SpecCmp == InitCmp /\ [][NextCmp]_vars

-----------------------------------------------------------------------------
(* Try-decode *)

\* the Utf8Error of run_utf8_validation: error_len is <<>> for None
Utf8Err(valid_up_to, error_len) == <<"Err", valid_up_to, error_len>>

\* core::str::validations::run_utf8_validation from index on (counted from 0)
RECURSIVE run_utf8_validation(_, _)
run_utf8_validation(v, index) ==
    IF index >= Len(v) THEN <<"Ok">>
    ELSE
        LET first == v[index + 1]
            old_offset == index
            len == Len(v)
            w == utf8_char_width(first)
        IN  IF first < 128 THEN run_utf8_validation(v, index + 1)
            ELSE IF w = 2 THEN
                IF index + 1 >= len THEN Utf8Err(old_offset, <<>>)
                ELSE IF ~IsCont(v[index + 2]) THEN Utf8Err(old_offset, <<1>>)
                ELSE run_utf8_validation(v, index + 2)
            ELSE IF w = 3 THEN
                IF index + 1 >= len THEN Utf8Err(old_offset, <<>>)
                ELSE IF ~Second3Ok(first, v[index + 2]) THEN Utf8Err(old_offset, <<1>>)
                ELSE IF index + 2 >= len THEN Utf8Err(old_offset, <<>>)
                ELSE IF ~IsCont(v[index + 3]) THEN Utf8Err(old_offset, <<2>>)
                ELSE run_utf8_validation(v, index + 3)
            ELSE IF w = 4 THEN
                IF index + 1 >= len THEN Utf8Err(old_offset, <<>>)
                ELSE IF ~Second4Ok(first, v[index + 2]) THEN Utf8Err(old_offset, <<1>>)
                ELSE IF index + 2 >= len THEN Utf8Err(old_offset, <<>>)
                ELSE IF ~IsCont(v[index + 3]) THEN Utf8Err(old_offset, <<2>>)
                ELSE IF index + 3 >= len THEN Utf8Err(old_offset, <<>>)
                ELSE IF ~IsCont(v[index + 4]) THEN Utf8Err(old_offset, <<3>>)
                ELSE run_utf8_validation(v, index + 4)
            ELSE Utf8Err(old_offset, <<1>>)

\* str::from_utf8: Ok with the same bytes viewed as text, or the error
from_utf8(v) ==
    LET r == run_utf8_validation(v, 0)
    IN  IF r[1] = "Ok" THEN <<"Ok", v>> ELSE r

\* RawStr::to_utf8
RawStr_to_utf8(b) == from_utf8(b)

\* is_utf8 testing is_err()
RawStr_is_utf8_negated(b) == RawStr_to_utf8(b)[1] # "Ok"

\* RawStr::is_utf8: self.to_utf8().is_ok()
RawStr_is_utf8(b) == RawStr_to_utf8(b)[1] = "Ok"

\* <&str as TryFrom<&RawStr>>::try_from
RawStr_try_from(b) == RawStr_to_utf8(b)

\* <String as TryFrom<BString>>::try_from: String::from_utf8(this.0), whose
\* error carries the Utf8Error
BString_try_from(b) == from_utf8(b)

RawStrToUtf8 == Apply("RawStr::to_utf8", RawStr_to_utf8(bytes))

RawStrIsUtf8 == Apply("RawStr::is_utf8", <<RawStr_is_utf8(bytes)>>)

RawStrTryFrom == Apply("RawStr::try_from", RawStr_try_from(bytes))

BStringTryFrom == Apply("BString::try_from", BString_try_from(bytes))

DecodeOps == {"RawStr::to_utf8", "RawStr::try_from", "BString::try_from"}

\* 'a', three continuation bytes (0x80, 0x90, 0xBF), the leads 0xC3, 0xE0,
\* 0xED, 0xF0 and 0xF4 with their restricted second bytes, 0xC0 and 0xFF
Utf8Bytes == {97, 128, 144, 160, 191, 192, 195, 224, 237, 240, 244, 255}

InitUtf8 ==
    /\ op = "init"
    /\ bytes \in SeqsUpTo(Utf8Bytes, MaxUtf8Len)
    /\ other = <<>>
    /\ align = "None"
    /\ width = <<>>
    /\ fill = 32
    /\ failAt = 0
    /\ out = <<>>
    /\ calls = 0
    /\ ret = <<>>

NextUtf8 == RawStrToUtf8 \/ RawStrIsUtf8 \/ RawStrTryFrom \/ BStringTryFrom

SpecUtf8 == InitUtf8 /\ [][NextUtf8]_vars

-----------------------------------------------------------------------------
(* The properties: what the specification says of the renderers *)

Max(a, b) == IF a > b THEN a ELSE b

\* n copies of the scalar c
Rep(c, n) == [k \in 1..n |-> c]

\* the occurrences of the scalar c in the text t
Count(t, c) == Cardinality({k \in 1..Len(t) : t[k] = c})

\* the chunks whose invalid suffix is not empty
InvalidChunkCount(chunks) ==
    Cardinality({k \in 1..Len(chunks) : Len(chunks[k].invalid) # 0})

\* the scalars of a valid byte run: its bytes that are not continuation bytes
ScalarCount(v) == Cardinality({k \in 1..Len(v) : ~IsCont(v[k])})

\* the visible-character length L of section 4.3.2
RECURSIVE VisibleLength(_)
VisibleLength(chunks) ==
    IF Len(chunks) = 0 THEN 0
    ELSE ScalarCount(chunks[1].valid)
         + (IF Len(chunks[1].invalid) # 0 THEN 1 ELSE 0)
         + VisibleLength(Tail(chunks))

\* the unpadded form of section 4.3.1: per chunk, the valid text and then one
\* U+FFFD when the invalid suffix is not empty
RECURSIVE UnpaddedForm(_)
UnpaddedForm(chunks) ==
    IF Len(chunks) = 0 THEN <<>>
    ELSE chars(chunks[1].valid)
         \o (IF Len(chunks[1].invalid) # 0 THEN <<65533>> ELSE <<>>)
         \o UnpaddedForm(Tail(chunks))

\* the valid text with one U+FFFD per contiguous run of invalid bytes: the
\* invalid suffix of chunk k continues the run of chunk k-1 exactly when the
\* valid prefix of chunk k is empty
RECURSIVE OnePerRunUpTo(_, _)
OnePerRunUpTo(chunks, k) ==
    IF k = 0 THEN <<>>
    ELSE OnePerRunUpTo(chunks, k - 1)
         \o chars(chunks[k].valid)
         \o (IF Len(chunks[k].invalid) # 0 /\ (k = 1 \/ Len(chunks[k].valid) # 0)
             THEN <<65533>> ELSE <<>>)

\* the occurrences of the byte triple EF BF BD (U+FFFD encoded) in a byte run
EncodedReplacements(v) ==
    Cardinality({k \in 1..(Len(v) - 2) :
                    v[k] = 239 /\ v[k + 1] = 191 /\ v[k + 2] = 189})

RECURSIVE ValidReplacements(_)
ValidReplacements(chunks) ==
    IF Len(chunks) = 0 THEN 0
    ELSE EncodedReplacements(chunks[1].valid) + ValidReplacements(Tail(chunks))

\* the requested minimum width W, zero if unspecified
W == IF Len(width) = 0 THEN 0 ELSE width[1]

\* L of the current byte run, and the total padding P = max(0, W - L)
L == VisibleLength(utf8_chunks(bytes))

P == Max(0, W - L)

\* the table of section 4.3.2
Pl == IF align = "Left" THEN 0 ELSE IF align = "Right" THEN P ELSE P \div 2

Pr == IF align = "Left" THEN P ELSE IF align = "Right" THEN 0 ELSE (P \div 2) + (P % 2)

\* C1 (as stated): the unpadded Display of B is its valid text with exactly one
\* U+FFFD per contiguous run of invalid bytes, whatever the run's length, and
\* Display of [0x61, 0xFF, 0xFF, 0x62] is 'a', U+FFFD, 'b'.
C1_OnePerInvalidRun ==
    op \in DisplayOps =>
        /\ ret = <<"Ok">>
        /\ out = OnePerRunUpTo(utf8_chunks(bytes), Len(utf8_chunks(bytes)))
        /\ (bytes = <<97, 255, 255, 98>> => out = <<97, 65533, 98>>)

\* C1 (amended): the unpadded Display of B is, chunk by chunk, the valid text
\* and then exactly one U+FFFD when the chunk's invalid suffix is not empty,
\* whatever that suffix's length; a run of invalid bytes that spans several
\* chunks gets one U+FFFD per chunk, and Display of [0x61, 0xFF, 0xFF, 0x62]
\* is 'a', U+FFFD, U+FFFD, 'b'.
C1_OnePerInvalidChunk ==
    op \in DisplayOps =>
        /\ ret = <<"Ok">>
        /\ out = UnpaddedForm(utf8_chunks(bytes))
        /\ (bytes = <<97, 255, 255, 98>> => out = <<97, 65533, 65533, 98>>)
        /\ (bytes = <<97, 255, 98>> => out = <<97, 65533, 98>>)

C1_Witness ==
    /\ op = "RawStr::Display"
    /\ bytes = <<97, 255, 255, 98>>
    /\ out = <<97, 65533, 65533, 98>>

\* C3 (as stated): the number of U+FFFD in the unpadded Display of B equals the
\* number of chunks of B with a non-empty invalid suffix.
C3_ReplacementsEqualInvalidChunks ==
    op \in DisplayOps =>
        Count(out, 65533) = InvalidChunkCount(utf8_chunks(bytes))

\* C3 (amended): the number of U+FFFD in the unpadded Display of B equals the
\* number of chunks of B with a non-empty invalid suffix plus the number of
\* U+FFFD scalars B itself encodes (EF BF BD) in its valid prefixes.
C3_ReplacementsEqualInvalidChunksPlusEncoded ==
    op \in DisplayOps =>
        Count(out, 65533) = InvalidChunkCount(utf8_chunks(bytes))
                            + ValidReplacements(utf8_chunks(bytes))

C3_Witness ==
    /\ op = "RawStr::Display"
    /\ bytes = <<239, 191, 189, 255>>
    /\ out = <<65533, 65533>>

\* C8: if B is valid UTF-8, the Display of B with no padding is B decoded as
\* UTF-8: the UTF-8 bytes of the output are exactly B.
C8_DisplayRoundTrip ==
    (op \in DisplayOps /\ run_utf8_validation(bytes, 0) = <<"Ok">>) =>
        /\ ret = <<"Ok">>
        /\ TextBytes(out) = bytes
        /\ Len(out) = ScalarCount(bytes)

C8_Witness ==
    /\ op = "BString::Display"
    /\ bytes = <<239, 191, 189, 97>>
    /\ run_utf8_validation(bytes, 0) = <<"Ok">>
    /\ out = <<65533, 97>>

\* C4 (as stated): for every alignment (left, right, center, none), width W and
\* fill F, the number of characters Display writes is max(W, L).
C4_LengthIsMaxForEveryAlignment ==
    op \in DisplayOps => Len(out) = Max(W, L)

\* C4 (amended): for the alignments left, right and center, every width W and
\* fill F, the number of characters Display writes is max(W, L); with no
\* alignment it is L, whatever W.
C4_LengthIsMaxWhenAligned ==
    op \in DisplayOps =>
        /\ align # "None" => Len(out) = Max(W, L)
        /\ align = "None" => Len(out) = L

C4_Witness ==
    /\ op = "BStr::Display"
    /\ align = "Right"
    /\ width = <<4>>
    /\ bytes = <<195, 191, 255>>
    /\ L = 2
    /\ Len(out) = 4

\* C5 (as stated): Display writes Pl fills, the unpadded form, then Pr fills,
\* with (Pl, Pr) from the table, Pl + Pr = P, the odd fill on the right under
\* center, and "ab" at width 5, center, fill '*' is "**ab*".
C5_PaddingWithExample ==
    (op \in DisplayOps /\ align # "None") =>
        /\ out = Rep(fill, Pl) \o UnpaddedForm(utf8_chunks(bytes)) \o Rep(fill, Pr)
        /\ Pl + Pr = P
        /\ (align = "Center" /\ P % 2 = 1 => Pr = Pl + 1)
        /\ (bytes = <<97, 98>> /\ width = <<5>> /\ align = "Center" /\ fill = 42
                => out = <<42, 42, 97, 98, 42>>)

\* C5 (amended): Display writes Pl fills, the unpadded form, then Pr fills,
\* with (Pl, Pr) from the table, Pl + Pr = P, the odd fill on the right under
\* center, and "ab" at width 5, center, fill '*' is "*ab**".
C5_Padding ==
    (op \in DisplayOps /\ align # "None") =>
        /\ out = Rep(fill, Pl) \o UnpaddedForm(utf8_chunks(bytes)) \o Rep(fill, Pr)
        /\ Pl + Pr = P
        /\ (align = "Center" /\ P % 2 = 1 => Pr = Pl + 1)
        /\ (bytes = <<97, 98>> /\ width = <<5>> /\ align = "Center" /\ fill = 42
                => out = <<42, 97, 98, 42, 42>>)

C5_Witness ==
    /\ op = "RawStr::Display"
    /\ bytes = <<97, 98>>
    /\ width = <<5>>
    /\ align = "Center"
    /\ fill = 42
    /\ out = <<42, 97, 98, 42, 42>>

\* C6: with no alignment Display ignores width and fill: the output is exactly
\* the unpadded form of B, and no fill character is written even when W > L.
C6_NoAlignmentNoPadding ==
    (op \in DisplayOps /\ align = "None") =>
        /\ out = UnpaddedForm(utf8_chunks(bytes))
        /\ Len(out) = L
        /\ Count(out, fill) = 0

C6_Witness ==
    /\ op = "BStr::Display"
    /\ align = "None"
    /\ width = <<6>>
    /\ fill = 42
    /\ bytes = <<97, 255>>
    /\ W > L
    /\ out = <<97, 65533>>

\* the value of a lower-case hexadecimal digit, -1 for any other scalar
HexVal(d) ==
    IF d >= 48 /\ d <= 57 THEN d - 48
    ELSE IF d >= 97 /\ d <= 102 THEN d - 87
    ELSE -1

\* the value of a run of hexadecimal digits
RECURSIVE HexNumber(_)
HexNumber(ds) ==
    IF Len(ds) = 0 THEN 0
    ELSE 16 * HexNumber(SubSeq(ds, 1, Len(ds) - 1)) + HexVal(ds[Len(ds)])

\* The documented escape grammar, read left to right: \0, \n, \r, \t, \\, \',
\* \" and \xNN are one byte, \u{HEX} is the UTF-8 encoding of that scalar, any
\* other character is its own UTF-8 encoding.  Text outside the grammar (a bare
\* quote, a dangling or unknown escape) reads as <<-1>>, which is no byte run.
RECURSIVE ParseEscaped(_)
ParseEscaped(t) ==
    IF Len(t) = 0 THEN <<>>
    ELSE IF t[1] = 34 THEN <<-1>>
    ELSE IF t[1] # 92 THEN encode_utf8(t[1]) \o ParseEscaped(Tail(t))
    ELSE IF Len(t) < 2 THEN <<-1>>
    ELSE
        LET e == t[2]
            rest == SubSeq(t, 3, Len(t))
            closes == {j \in 4..Len(t) : t[j] = 125}
            close == CHOOSE j \in closes : \A i \in closes : j <= i
        IN  IF e = 48 THEN <<0>> \o ParseEscaped(rest)
            ELSE IF e = 110 THEN <<10>> \o ParseEscaped(rest)
            ELSE IF e = 114 THEN <<13>> \o ParseEscaped(rest)
            ELSE IF e = 116 THEN <<9>> \o ParseEscaped(rest)
            ELSE IF e = 92 THEN <<92>> \o ParseEscaped(rest)
            ELSE IF e = 39 THEN <<39>> \o ParseEscaped(rest)
            ELSE IF e = 34 THEN <<34>> \o ParseEscaped(rest)
            ELSE IF e = 120 THEN
                IF Len(t) < 4 \/ HexVal(t[3]) < 0 \/ HexVal(t[4]) < 0 THEN <<-1>>
                ELSE <<16 * HexVal(t[3]) + HexVal(t[4])>>
                     \o ParseEscaped(SubSeq(t, 5, Len(t)))
            ELSE IF e = 117 THEN
                IF Len(t) < 5 \/ t[3] # 123 \/ closes = {} THEN <<-1>>
                ELSE IF close = 4 \/ \E j \in 4..(close - 1) : HexVal(t[j]) < 0
                THEN <<-1>>
                ELSE encode_utf8(HexNumber(SubSeq(t, 4, close - 1)))
                     \o ParseEscaped(SubSeq(t, close + 1, Len(t)))
            ELSE <<-1>>

\* the bytes of B that lie in the invalid suffix of some chunk
RECURSIVE InvalidBytes(_)
InvalidBytes(chunks) ==
    IF Len(chunks) = 0 THEN <<>>
    ELSE chunks[1].invalid \o InvalidBytes(Tail(chunks))

\* C7: the Debug output of B starts and ends with a double quote, and the text
\* between the quotes, read under the escape grammar, is B byte for byte (so
\* two byte runs with the same Debug output are the same run); no U+FFFD is
\* written for an invalid byte, and [0x61, 0xFF, 0x62] gives "a\xffb".
C7_DebugLossFree ==
    op \in DebugOps =>
        /\ ret = <<"Ok">>
        /\ Len(out) >= 2
        /\ out[1] = 34
        /\ out[Len(out)] = 34
        /\ ParseEscaped(SubSeq(out, 2, Len(out) - 1)) = bytes
        /\ Count(out, 65533) = 0
        /\ (bytes = <<97, 255, 98>> => out = <<34, 97, 92, 120, 102, 102, 98, 34>>)
        /\ (bytes = <<0, 9, 127>>
                => out = <<34, 92, 48, 92, 116, 92, 120, 55, 102, 34>>)

C7_Witness ==
    /\ op = "RawStr::Debug"
    /\ bytes = <<92, 194, 128>>
    /\ InvalidBytes(utf8_chunks(bytes)) = <<>>
    /\ out = <<34, 92, 92, 92, 117, 123, 56, 48, 125, 34>>
    /\ ParseEscaped(SubSeq(out, 2, Len(out) - 1)) = bytes

\* C2: if the writer refuses a write of a Display or Debug render, the render
\* returns the error and issues no write after the refused one.
C2_WriterFailurePropagates ==
    (op \in DisplayOps \cup DebugOps /\ failAt >= 1 /\ calls >= failAt) =>
        /\ ret = <<"Err">>
        /\ calls = failAt

\* a and b agree on their first n bytes
AgreeUpTo(a, b, n) == \A j \in 1..n : a[j] = b[j]

\* a is byte-lexicographically less than b: a smaller byte at the first
\* difference, or a proper prefix
LexLess(a, b) ==
    \/ \E k \in 1..Len(a) : k <= Len(b) /\ AgreeUpTo(a, b, k - 1) /\ a[k] < b[k]
    \/ Len(a) < Len(b) /\ AgreeUpTo(a, b, Len(a))

\* the byte-lexicographic ordering of a and b
LexOrder(a, b) ==
    IF LexLess(a, b) THEN "Less" ELSE IF LexLess(b, a) THEN "Greater" ELSE "Equal"

\* the same length and the same byte at every index
Identical(a, b) == Len(a) = Len(b) /\ AgreeUpTo(a, b, Len(a))

\* C9: eq is true iff the two byte runs are identical, partial_cmp is always
\* Some of the byte-lexicographic ordering, cmp is that ordering, and so eq
\* holds iff partial_cmp is Some(Equal).
C9_ComparisonIsByteComparison ==
    /\ op \in {"RawStr::eq", "BStr::eq"} => ret = <<Identical(bytes, other)>>
    /\ op \in {"RawStr::partial_cmp", "BStr::partial_cmp"} =>
        /\ ret = <<"Some", LexOrder(bytes, other)>>
        /\ (ret = <<"Some", "Equal">>) <=> RawStr_eq(bytes, other)
        /\ (ret = <<"Some", "Equal">>) <=> BStr_eq(bytes, other)
    /\ op \in {"RawStr::cmp", "BStr::cmp"} => ret = <<LexOrder(bytes, other)>>

C9_Witness ==
    /\ op = "RawStr::partial_cmp"
    /\ bytes = <<97>>
    /\ other = <<0, 255>>
    /\ ret = <<"Some", "Greater">>

\* C10: to_utf8 and the two try_from conversions return Ok, with text whose
\* bytes are exactly B, iff no chunk of B has a non-empty invalid suffix;
\* otherwise they return an error whose position is the length of the first
\* chunk's valid prefix, the index of the first invalid byte; is_utf8 is true
\* exactly when to_utf8 is Ok.
C10_DecodeAgreesWithChunks ==
    LET chunks == utf8_chunks(bytes)
        valid == InvalidChunkCount(chunks) = 0
    IN  /\ op \in DecodeOps =>
            /\ valid => ret = <<"Ok", bytes>>
            /\ ~valid =>
                /\ ret[1] = "Err"
                /\ ret[2] = Len(chunks[1].valid)
                /\ ret[2] < Len(bytes)
                /\ Len(InvalidBytes(chunks)) >= 1
                /\ bytes[ret[2] + 1] = InvalidBytes(chunks)[1]
        /\ op = "RawStr::is_utf8" =>
            /\ ret = <<valid>>
            /\ ret[1] <=> (RawStr_to_utf8(bytes)[1] = "Ok")

C10_Witness ==
    /\ op = "BString::try_from"
    /\ bytes = <<97, 237, 160, 128>>
    /\ ret = <<"Err", 1, <<1>>>>

====
